---- MODULE Spec2Model ----
(***************************************************************************)
(* ConnectionKeeper (scylla/src/transport/connection_keeper.rs).           *)
(*                                                                         *)
(* A keeper owns the receiving side of a tokio watch channel that carries  *)
(* its ConnectionState, and the RemoteHandle of a worker task.  The worker *)
(* opens one connection, optionally selects the construction-time          *)
(* keyspace on it, publishes Connected or Broken and forwards the          *)
(* connection's shard info to a sink shared between keepers.  Callers read *)
(* the state, wait for initialization, get the connection and select a     *)
(* keyspace on it.                                                         *)
(*                                                                         *)
(* Every variable is a function over the keepers of the run, so that the   *)
(* same actions describe one keeper alone and several keepers that share   *)
(* one shard-info sink.                                                    *)
(***************************************************************************)
EXTENDS Integers, FiniteSets, Sequences, TLC

VARIABLES
    cfg,            \* [k -> the worker's fields set by ConnectionKeeper::new]
    chan,           \* [k -> the watch channel of ConnectionState]
    dropped,        \* [k -> the ConnectionKeeper value has been dropped]
    wpc,            \* [k -> where the worker task is]
    nOpen,          \* [k -> number of connection::open_connection calls]
    openPort,       \* [k -> source_port argument of the last open call]
    conn,           \* [k -> the Connection opened by the worker, or None]
    ksResult,       \* [k -> result of the worker's use_keyspace on the new connection]
    cur_connection, \* [k -> the worker's local cur_connection]
    new_shard_info, \* [k -> the worker's local new_shard_info]
    sink,           \* the shared ShardInfoSender: mutex + watch sender
    cpc,            \* [k -> [c -> where caller c is in its call]]
    cop,            \* [k -> [c -> the operation caller c last called]]
    carg,           \* [k -> [c -> keyspace_name argument of use_keyspace]]
    cver,           \* [k -> [c -> version seen by the caller's my_receiver]]
    cres,           \* [k -> [c -> value returned by the caller's last call]]
    connKsResult,   \* [k -> [c -> result the connection gave the caller's use_keyspace]]
    lastObs,        \* [k -> value returned by the last connection_state()]
    leftInit        \* [k -> some connection_state() call returned a non-Initializing value]

vars == <<cfg, chan, dropped, wpc, nOpen, openPort, conn, ksResult, cur_connection,
          new_shard_info, sink, cpc, cop, carg, cver, cres, connKsResult, lastObs,
          leftInit>>

workerVars == <<wpc, nOpen, openPort, conn, ksResult, cur_connection, new_shard_info>>
callerVars == <<cpc, cop, carg, cver, cres, connKsResult>>
obsVars == <<lastObs, leftInit>>

(***************************************************************************)
(* Bounds of the model.                                                    *)
(***************************************************************************)
NrShards == 2       \* shards of the node
MaxPort == 2        \* source ports are 0..MaxPort

\* The tasks that call the keeper concurrently: two, so that every pair of
\* steps of two calls and of the worker interleaves.
Callers == {"c1", "c2"}

\* Option<T>: None, or Some(x)
None == <<>>
Some(x) == <<x>>
Unwrap(o) == o[1]
OptionOf(S) == {None} \cup {Some(x) : x \in S}
Errors == {"E1", "E2"}                      \* QueryError values
Keyspaces == {"ks1", "ks2"}                 \* VerifiedKeyspaceName values
ShardInfos == [shard : 0..(NrShards - 1), nr_shards : {NrShards}]
Ports == 0..MaxPort

(***************************************************************************)
(* ConnectionState and Result values.                                      *)
(***************************************************************************)
Initializing == [tag |-> "Initializing"]
Connected(h) == [tag |-> "Connected", conn |-> h]
Broken(e) == [tag |-> "Broken", err |-> e]

Ok(v) == [tag |-> "Ok", val |-> v]
Err(e) == [tag |-> "Err", err |-> e]
OkUnit == [tag |-> "Ok", unit |-> TRUE]
NoResult == [tag |-> "NoResult"]
Panic(what) == [tag |-> "Panic", what |-> what]

(***************************************************************************)
(* tokio::sync::watch as the keeper uses it.  A channel holds the latest   *)
(* value and a version that every successful send increments; a receiver   *)
(* remembers the version it has seen; rx_version is the version seen by    *)
(* the keeper's own conn_state_receiver, which only borrow() ever reads,   *)
(* so it stays the version of construction.                                *)
(***************************************************************************)
watch_channel(init) == [value |-> init, version |-> 0, rx_version |-> 0]

\* Sender::send: fails, leaving the value alone, when no receiver is left.
watch_send(ch, v, has_receivers) ==
    IF has_receivers
    THEN [ch EXCEPT !.value = v, !.version = @ + 1]
    ELSE ch

\* Receiver::borrow
watch_borrow(ch) == ch.value

\* Mutant: the clone starts from the channel's current version.
Receiver_clone_current(ch) == ch.version

\* Receiver::clone: the clone has seen what the cloned receiver has seen.
Receiver_clone(ch) == ch.rx_version

\* Mutant: changed() wakes without a new version.
changed_poll_spurious(ch, seen, sender_dropped) == "Ok"

\* Receiver::changed: Ok once the version differs from the one seen, Err when
\* it does not and the sender is gone, pending otherwise.
changed_poll(ch, seen, sender_dropped) ==
    IF ch.version # seen THEN "Ok"
    ELSE IF sender_dropped THEN "Err"
    ELSE "Pending"

(***************************************************************************)
(* Collaborators of the keeper that live in other files of the driver.     *)
(***************************************************************************)
\* ShardInfo::draw_source_port_for_shard: the ports it can draw, all of which
\* the node maps to the given shard.
draw_source_port_for_shard(info, shard) ==
    {p \in Ports : p % info.nr_shards = shard}

\* connection::open_connection: fails with an error or yields a connection,
\* whose shard info is what the node reported.
open_connection_results ==
    {Err(e) : e \in Errors} \cup
    {Ok([shard_info |-> si, selected_keyspace |-> None]) : si \in OptionOf(ShardInfos)}

\* Connection::use_keyspace issues the selection of the name on the connection;
\* the connection records the name it was asked to select.
Connection_use_keyspace(c, name) == [c EXCEPT !.selected_keyspace = Some(name)]

use_keyspace_results == {OkUnit} \cup {Err(e) : e \in Errors}

\* Connection::get_shard_info
get_shard_info(c) == c.shard_info

(***************************************************************************)
(* ConnectionKeeper::new                                                   *)
(***************************************************************************)
WorkerConfigs ==
    [shard_info : OptionOf(ShardInfos),
     has_sender : BOOLEAN,
     used_keyspace : OptionOf({"ks1"})]

\* The sink as the keepers get it: unlocked, its mutex possibly poisoned by a
\* panic of another user, its watch channel with or without a receiver.
Sinks == [value : {None}, holder : {None}, poisoned : BOOLEAN, receivers : BOOLEAN]

InitFor(K) ==
    /\ cfg \in [K -> WorkerConfigs]
    /\ chan = [k \in K |-> watch_channel(Initializing)]
    /\ dropped = [k \in K |-> FALSE]
    /\ wpc = [k \in K |-> "spawned"]
    /\ nOpen = [k \in K |-> 0]
    /\ openPort = [k \in K |-> None]
    /\ conn = [k \in K |-> None]
    /\ ksResult = [k \in K |-> NoResult]
    /\ cur_connection = [k \in K |-> NoResult]
    /\ new_shard_info = [k \in K |-> None]
    /\ sink \in Sinks
    \* nothing reads the sink when no keeper has it, nor its receivers when its
    \* lock is poisoned: one sink stands for all of them
    /\ (\A k \in K : ~cfg[k].has_sender) => (~sink.poisoned /\ sink.receivers)
    /\ sink.poisoned => sink.receivers
    /\ cpc = [k \in K |-> [c \in Callers |-> "idle"]]
    /\ cop = [k \in K |-> [c \in Callers |-> "none"]]
    /\ carg = [k \in K |-> [c \in Callers |-> None]]
    /\ cver = [k \in K |-> [c \in Callers |-> 0]]
    /\ cres = [k \in K |-> [c \in Callers |-> NoResult]]
    /\ connKsResult = [k \in K |-> [c \in Callers |-> NoResult]]
    /\ lastObs = [k \in K |-> NoResult]
    /\ leftInit = [k \in K |-> FALSE]

Keepers == DOMAIN wpc

Init == InitFor({1})

(***************************************************************************)
(* The worker task: work() wrapped by remote_handle() and spawned.         *)
(***************************************************************************)
\* Mutant: the task is spawned detached, without the handle.
WorkerStopRequested_detached(k) == FALSE

\* The Remote future gives up at its next poll once the RemoteHandle, a field
\* of the keeper, has been dropped.
WorkerStopRequested(k) == dropped[k]

\* The worker is suspended in an await (or was never polled).
WorkerSuspended(k) == wpc[k] \in {"spawned", "opening", "ks_await"}

\* The watch sender is a field of the worker: it is dropped with the worker.
SenderDropped(k) == wpc[k] \in {"done", "cancelled"}

\* The keeper's receiver, and with it every receiver, is gone after the drop.
HasReceivers(k) == ~dropped[k]

\* Mutant: the port is drawn for shard 0 whatever the shard asked for.
SourcePortChoices_shard0(shard_info) ==
    IF shard_info = None
    THEN {None}
    ELSE {Some(p) : p \in draw_source_port_for_shard(Unwrap(shard_info), 0)}

\* open_new_connection, up to the call of open_connection.
SourcePortChoices(shard_info) ==
    IF shard_info = None
    THEN {None}
    ELSE {Some(p) : p \in draw_source_port_for_shard(Unwrap(shard_info),
                                                        Unwrap(shard_info).shard)}

WorkerBegin(k) ==
    /\ wpc[k] = "spawned"
    /\ ~WorkerStopRequested(k)
    /\ \E source_port \in SourcePortChoices(cfg[k].shard_info) :
          openPort' = [openPort EXCEPT ![k] = source_port]
    /\ nOpen' = [nOpen EXCEPT ![k] = @ + 1]
    /\ wpc' = [wpc EXCEPT ![k] = "opening"]
    /\ UNCHANGED <<cfg, chan, dropped, conn, ksResult, cur_connection, new_shard_info,
                   sink, callerVars, obsVars>>

\* Mutant: the construction-time keyspace is not selected on the new connection.
KeyspaceApplied_skipped(c, used_keyspace) == c

\* if let Some(keyspace_name) = &self.used_keyspace { new_conn.use_keyspace(..) }
KeyspaceApplied(c, used_keyspace) ==
    IF used_keyspace = None
    THEN c
    ELSE Connection_use_keyspace(c, Unwrap(used_keyspace))

\* open_connection(...).await? and, with a keyspace, the call of use_keyspace.
OpenResolved(k) ==
    /\ wpc[k] = "opening"
    /\ ~WorkerStopRequested(k)
    /\ \E r \in open_connection_results :
          IF r.tag = "Err"
          THEN /\ cur_connection' = [cur_connection EXCEPT ![k] = r]
               /\ wpc' = [wpc EXCEPT ![k] = "publish"]
               /\ UNCHANGED conn
          ELSE IF cfg[k].used_keyspace # None
          THEN /\ conn' = [conn EXCEPT
                              ![k] = Some(KeyspaceApplied(r.val, cfg[k].used_keyspace))]
               /\ wpc' = [wpc EXCEPT ![k] = "ks_await"]
               /\ UNCHANGED cur_connection
          ELSE /\ conn' = [conn EXCEPT
                              ![k] = Some(KeyspaceApplied(r.val, cfg[k].used_keyspace))]
               /\ cur_connection' = [cur_connection EXCEPT ![k] = Ok(nOpen[k])]
               /\ wpc' = [wpc EXCEPT ![k] = "publish"]
    /\ UNCHANGED <<cfg, chan, dropped, nOpen, openPort, ksResult, new_shard_info,
                   sink, callerVars, obsVars>>

\* Mutant: the error of use_keyspace is propagated with `?`.
AfterKeyspace_propagate(r, handle) == IF r.tag = "Err" THEN r ELSE Ok(handle)

\* What open_new_connection returns once use_keyspace has resolved with r:
\* `let _ =` ignores the result.
AfterKeyspace(r, handle) == Ok(handle)

KeyspaceResolved(k) ==
    /\ wpc[k] = "ks_await"
    /\ ~WorkerStopRequested(k)
    /\ \E r \in use_keyspace_results :
          /\ ksResult' = [ksResult EXCEPT ![k] = r]
          /\ cur_connection' = [cur_connection EXCEPT ![k] = AfterKeyspace(r, nOpen[k])]
    /\ wpc' = [wpc EXCEPT ![k] = "publish"]
    /\ UNCHANGED <<cfg, chan, dropped, nOpen, openPort, conn, new_shard_info,
                   sink, callerVars, obsVars>>

\* Mutant: after publishing, the worker loops to open a connection again.
WorkerPublish_loop(k) ==
    /\ wpc[k] = "publish"
    /\ nOpen[k] < 3
    /\ chan' = [chan EXCEPT
                   ![k] = [@ EXCEPT !.value = IF cur_connection[k].tag = "Ok"
                                              THEN Connected(cur_connection[k].val)
                                              ELSE Broken(cur_connection[k].err),
                                    !.version = @ + 1]]
    /\ wpc' = [wpc EXCEPT ![k] = "spawned"]
    /\ UNCHANGED <<cfg, dropped, nOpen, openPort, conn, ksResult, cur_connection,
                   new_shard_info, sink, callerVars, obsVars>>

\* Mutant: the worker forwards the ShardInfo it was constructed with.
WorkerPublish_cfg_shard(k) ==
    /\ wpc[k] = "publish"
    /\ chan' = [chan EXCEPT
                   ![k] = IF dropped[k] THEN @
                          ELSE [@ EXCEPT !.value = IF cur_connection[k].tag = "Ok"
                                                   THEN Connected(cur_connection[k].val)
                                                   ELSE Broken(cur_connection[k].err),
                                         !.version = @ + 1]]
    /\ IF cur_connection[k].tag = "Ok"
       THEN /\ new_shard_info' = [new_shard_info EXCEPT ![k] = cfg[k].shard_info]
            /\ wpc' = [wpc EXCEPT ![k] = IF cfg[k].has_sender THEN "lock" ELSE "done"]
       ELSE /\ wpc' = [wpc EXCEPT ![k] = "done"]
            /\ UNCHANGED new_shard_info
    /\ UNCHANGED <<cfg, dropped, nOpen, openPort, conn, ksResult, cur_connection,
                   sink, callerVars, obsVars>>

\* Mutant: a failed attempt ends the worker without a send.
WorkerPublish_silent_failure(k) ==
    /\ wpc[k] = "publish"
    /\ IF cur_connection[k].tag = "Ok"
       THEN /\ chan' = [chan EXCEPT
                           ![k] = IF dropped[k] THEN @
                                  ELSE [@ EXCEPT !.value = Connected(cur_connection[k].val),
                                                 !.version = @ + 1]]
            /\ new_shard_info' = [new_shard_info EXCEPT ![k] = Unwrap(conn[k]).shard_info]
            /\ wpc' = [wpc EXCEPT ![k] = IF cfg[k].has_sender THEN "lock" ELSE "done"]
       ELSE /\ wpc' = [wpc EXCEPT ![k] = "done"]
            /\ UNCHANGED <<chan, new_shard_info>>
    /\ UNCHANGED <<cfg, dropped, nOpen, openPort, conn, ksResult, cur_connection,
                   sink, callerVars, obsVars>>

\* Mutant: the shard info is forwarded after a failed attempt too.
WorkerPublish_forward_always(k) ==
    /\ wpc[k] = "publish"
    /\ chan' = [chan EXCEPT
                   ![k] = IF dropped[k] THEN @
                          ELSE [@ EXCEPT !.value = IF cur_connection[k].tag = "Ok"
                                                   THEN Connected(cur_connection[k].val)
                                                   ELSE Broken(cur_connection[k].err),
                                         !.version = @ + 1]]
    /\ new_shard_info' = [new_shard_info EXCEPT
                             ![k] = IF cur_connection[k].tag = "Ok"
                                    THEN Unwrap(conn[k]).shard_info
                                    ELSE cfg[k].shard_info]
    /\ wpc' = [wpc EXCEPT ![k] = IF cfg[k].has_sender THEN "lock" ELSE "done"]
    /\ UNCHANGED <<cfg, dropped, nOpen, openPort, conn, ksResult, cur_connection,
                   sink, callerVars, obsVars>>

\* The state work() publishes for the result of open_new_connection.
PublishedState(r) ==
    IF r.tag = "Ok" THEN Connected(r.val) ELSE Broken(r.err)

WorkerPublish(k) ==
    /\ wpc[k] = "publish"
    /\ chan' = [chan EXCEPT
                   ![k] = watch_send(@, PublishedState(cur_connection[k]), HasReceivers(k))]
    /\ IF cur_connection[k].tag = "Ok"
       THEN /\ new_shard_info' = [new_shard_info EXCEPT ![k] = get_shard_info(Unwrap(conn[k]))]
            /\ wpc' = [wpc EXCEPT ![k] = IF cfg[k].has_sender THEN "lock" ELSE "done"]
       ELSE /\ wpc' = [wpc EXCEPT ![k] = "done"]
            /\ UNCHANGED new_shard_info
    /\ UNCHANGED <<cfg, dropped, nOpen, openPort, conn, ksResult, cur_connection,
                   sink, callerVars, obsVars>>

\* Mutant: a poisoned sink lock is reported as a broken connection.
WorkerLock_broken(k) ==
    /\ wpc[k] = "lock"
    /\ sink.holder = None
    /\ IF sink.poisoned
       THEN /\ wpc' = [wpc EXCEPT ![k] = "done"]
            /\ chan' = [chan EXCEPT ![k] = [@ EXCEPT !.value = [tag |-> "Broken", err |-> "E1"],
                                                     !.version = @ + 1]]
            /\ UNCHANGED sink
       ELSE /\ wpc' = [wpc EXCEPT ![k] = "sink_send"]
            /\ sink' = [sink EXCEPT !.holder = Some(k)]
            /\ UNCHANGED chan
    /\ UNCHANGED <<cfg, dropped, nOpen, openPort, conn, ksResult, cur_connection,
                   new_shard_info, callerVars, obsVars>>

\* Mutant: sender.lock().unwrap(): a poisoned lock makes the worker panic.
WorkerLock_unwrap(k) ==
    /\ wpc[k] = "lock"
    /\ sink.holder = None
    /\ IF sink.poisoned
       THEN /\ wpc' = [wpc EXCEPT ![k] = "panicked"]
            /\ UNCHANGED sink
       ELSE /\ wpc' = [wpc EXCEPT ![k] = "sink_send"]
            /\ sink' = [sink EXCEPT !.holder = Some(k)]
    /\ UNCHANGED <<cfg, chan, dropped, nOpen, openPort, conn, ksResult, cur_connection,
                   new_shard_info, callerVars, obsVars>>

\* Mutant: the send is made without waiting for the mutex.
WorkerLock_nolock(k) ==
    /\ wpc[k] = "lock"
    /\ IF sink.poisoned
       THEN /\ wpc' = [wpc EXCEPT ![k] = "done"]
            /\ UNCHANGED sink
       ELSE /\ wpc' = [wpc EXCEPT ![k] = "sink_send"]
            /\ sink' = [sink EXCEPT !.holder = Some(k)]
    /\ UNCHANGED <<cfg, chan, dropped, nOpen, openPort, conn, ksResult, cur_connection,
                   new_shard_info, callerVars, obsVars>>

\* sender.lock(): blocks while another thread holds the mutex; Err when poisoned.
WorkerLock(k) ==
    /\ wpc[k] = "lock"
    /\ sink.holder = None
    /\ IF sink.poisoned
       THEN /\ wpc' = [wpc EXCEPT ![k] = "done"]
            /\ UNCHANGED sink
       ELSE /\ wpc' = [wpc EXCEPT ![k] = "sink_send"]
            /\ sink' = [sink EXCEPT !.holder = Some(k)]
    /\ UNCHANGED <<cfg, chan, dropped, nOpen, openPort, conn, ksResult, cur_connection,
                   new_shard_info, callerVars, obsVars>>

\* Mutant: after forwarding, the worker marks the keeper Initializing again.
WorkerSinkSend_reset(k) ==
    /\ wpc[k] = "sink_send"
    /\ sink' = [sink EXCEPT
                   !.value = IF sink.receivers THEN new_shard_info[k] ELSE @,
                   !.holder = None]
    /\ chan' = [chan EXCEPT ![k] = [@ EXCEPT !.value = [tag |-> "Initializing"],
                                             !.version = @ + 1]]
    /\ wpc' = [wpc EXCEPT ![k] = "done"]
    /\ UNCHANGED <<cfg, dropped, nOpen, openPort, conn, ksResult, cur_connection,
                   new_shard_info, callerVars, obsVars>>

\* sender_locked.send(new_shard_info), then the guard is dropped.
WorkerSinkSend(k) ==
    /\ wpc[k] = "sink_send"
    /\ sink' = [sink EXCEPT
                   !.value = IF sink.receivers THEN new_shard_info[k] ELSE @,
                   !.holder = None]
    /\ wpc' = [wpc EXCEPT ![k] = "done"]
    /\ UNCHANGED <<cfg, chan, dropped, nOpen, openPort, conn, ksResult, cur_connection,
                   new_shard_info, callerVars, obsVars>>

\* The next poll after the drop of the RemoteHandle ends the task.
WorkerCancel(k) ==
    /\ WorkerSuspended(k)
    /\ WorkerStopRequested(k)
    /\ wpc' = [wpc EXCEPT ![k] = "cancelled"]
    /\ UNCHANGED <<cfg, chan, dropped, nOpen, openPort, conn, ksResult, cur_connection,
                   new_shard_info, sink, callerVars, obsVars>>

(***************************************************************************)
(* ConnectionKeeper::connection_state                                      *)
(***************************************************************************)
connection_state(k) == watch_borrow(chan[k])

\* Mutant: the call waits until the state has left Initializing.
Call_connection_state_blocking(k) ==
    /\ ~dropped[k]
    /\ watch_borrow(chan[k]) # Initializing
    /\ lastObs' = [lastObs EXCEPT ![k] = watch_borrow(chan[k])]
    /\ leftInit' = [leftInit EXCEPT ![k] = TRUE]
    /\ UNCHANGED <<cfg, chan, dropped, workerVars, sink, callerVars>>

Call_connection_state(k) ==
    /\ ~dropped[k]
    /\ lastObs' = [lastObs EXCEPT ![k] = connection_state(k)]
    /\ leftInit' = [leftInit EXCEPT ![k] = @ \/ connection_state(k) # Initializing]
    /\ UNCHANGED <<cfg, chan, dropped, workerVars, sink, callerVars>>

(***************************************************************************)
(* ConnectionKeeper::wait_until_initialized, on its own and as the first   *)
(* step of get_connection and use_keyspace.                                *)
(***************************************************************************)
\* Where a call goes on once wait_until_initialized has returned.
AfterWait(k, c, op) ==
    IF op = "wait_until_initialized"
    THEN /\ cpc' = [cpc EXCEPT ![k][c] = "idle"]
         /\ cres' = [cres EXCEPT ![k][c] = OkUnit]
    ELSE /\ cpc' = [cpc EXCEPT ![k][c] = "g_read"]
         /\ cres' = [cres EXCEPT ![k][c] = NoResult]

\* Mutant: the call goes on without waiting for the worker.
EnterWait_nowait(k, c, op, arg) ==
    /\ cpc[k][c] = "idle"
    /\ ~dropped[k]
    /\ cop' = [cop EXCEPT ![k][c] = op]
    /\ carg' = [carg EXCEPT ![k][c] = arg]
    /\ connKsResult' = [connKsResult EXCEPT ![k][c] = NoResult]
    /\ AfterWait(k, c, op)
    /\ UNCHANGED <<cfg, chan, dropped, workerVars, sink, cver, obsVars>>

\* The call and the first borrow(): return at once unless Initializing.
EnterWait(k, c, op, arg) ==
    /\ cpc[k][c] = "idle"
    /\ ~dropped[k]
    /\ cop' = [cop EXCEPT ![k][c] = op]
    /\ carg' = [carg EXCEPT ![k][c] = arg]
    /\ connKsResult' = [connKsResult EXCEPT ![k][c] = NoResult]
    /\ IF watch_borrow(chan[k]) = Initializing
       THEN /\ cpc' = [cpc EXCEPT ![k][c] = "w_clone"]
            /\ cres' = [cres EXCEPT ![k][c] = NoResult]
       ELSE AfterWait(k, c, op)
    /\ UNCHANGED <<cfg, chan, dropped, workerVars, sink, cver, obsVars>>

Call_wait_until_initialized(k, c) == EnterWait(k, c, "wait_until_initialized", None)

Call_get_connection(k, c) == EnterWait(k, c, "get_connection", None)

Call_use_keyspace(k, c, keyspace_name) == EnterWait(k, c, "use_keyspace", Some(keyspace_name))

\* Mutant: the new receiver marks the channel's current value as seen.
WaitClone_mark_seen(k, c) ==
    /\ cpc[k][c] = "w_clone"
    /\ cver' = [cver EXCEPT ![k][c] = chan[k].version]
    /\ cpc' = [cpc EXCEPT ![k][c] = "w_changed"]
    /\ UNCHANGED <<cfg, chan, dropped, workerVars, sink, cop, carg, cres, connKsResult,
                   obsVars>>

\* let mut my_receiver = self.conn_state_receiver.clone();
WaitClone(k, c) ==
    /\ cpc[k][c] = "w_clone"
    /\ cver' = [cver EXCEPT ![k][c] = Receiver_clone(chan[k])]
    /\ cpc' = [cpc EXCEPT ![k][c] = "w_changed"]
    /\ UNCHANGED <<cfg, chan, dropped, workerVars, sink, cop, carg, cres, connKsResult,
                   obsVars>>

\* my_receiver.changed().await.expect(..)
WaitChanged(k, c) ==
    /\ cpc[k][c] = "w_changed"
    /\ LET r == changed_poll(chan[k], cver[k][c], SenderDropped(k)) IN
          /\ r # "Pending"
          /\ IF r = "Ok"
             THEN /\ cver' = [cver EXCEPT ![k][c] = chan[k].version]
                  /\ cpc' = [cpc EXCEPT ![k][c] = "w_assert"]
                  /\ UNCHANGED cres
             ELSE /\ cpc' = [cpc EXCEPT ![k][c] = "panicked"]
                  /\ cres' = [cres EXCEPT ![k][c] = Panic("expect")]
                  /\ UNCHANGED cver
    /\ UNCHANGED <<cfg, chan, dropped, workerVars, sink, cop, carg, connKsResult, obsVars>>

\* debug_assert!(!matches!(borrow(), Initializing)), then return
WaitAssert(k, c) ==
    /\ cpc[k][c] = "w_assert"
    /\ IF watch_borrow(chan[k]) = Initializing
       THEN /\ cpc' = [cpc EXCEPT ![k][c] = "panicked"]
            /\ cres' = [cres EXCEPT ![k][c] = Panic("debug_assert")]
       ELSE AfterWait(k, c, cop[k][c])
    /\ cver' = [cver EXCEPT ![k][c] = 0]
    /\ UNCHANGED <<cfg, chan, dropped, workerVars, sink, cop, carg, connKsResult, obsVars>>

(***************************************************************************)
(* ConnectionKeeper::get_connection and use_keyspace after the wait.       *)
(***************************************************************************)
\* Mutant: a broken keeper reports one fixed error, not the stored one.
get_connection_result_generic(state) ==
    IF state.tag = "Connected" THEN Ok(state.conn)
    ELSE IF state.tag = "Broken" THEN Err("E1")
    ELSE Panic("unreachable")

\* match self.connection_state() { .. }
get_connection_result(state) ==
    IF state.tag = "Connected" THEN Ok(state.conn)
    ELSE IF state.tag = "Broken" THEN Err(state.err)
    ELSE Panic("unreachable")

\* Mutant: use_keyspace also stores the name as the keeper's keyspace.
GetRead_remember(k, c) ==
    /\ cpc[k][c] = "g_read"
    /\ LET r == get_connection_result(watch_borrow(chan[k])) IN
          IF r.tag = "Panic"
          THEN /\ cpc' = [cpc EXCEPT ![k][c] = "panicked"]
               /\ cres' = [cres EXCEPT ![k][c] = r]
               /\ UNCHANGED <<carg, conn, cfg>>
          ELSE IF cop[k][c] = "use_keyspace" /\ r.tag = "Ok"
          THEN /\ conn' = [conn EXCEPT
                              ![k] = Some(Connection_use_keyspace(
                                              Unwrap(@), Unwrap(carg[k][c])))]
               /\ cfg' = [cfg EXCEPT ![k].used_keyspace = carg[k][c]]
               /\ cpc' = [cpc EXCEPT ![k][c] = "u_await"]
               /\ UNCHANGED <<carg, cres>>
          ELSE /\ cpc' = [cpc EXCEPT ![k][c] = "idle"]
               /\ cres' = [cres EXCEPT ![k][c] = r]
               /\ carg' = [carg EXCEPT ![k][c] = None]
               /\ UNCHANGED <<conn, cfg>>
    /\ UNCHANGED <<chan, dropped, wpc, nOpen, openPort, ksResult, cur_connection,
                   new_shard_info, sink, cop, cver, connKsResult, obsVars>>

GetRead(k, c) ==
    /\ cpc[k][c] = "g_read"
    /\ LET r == get_connection_result(connection_state(k)) IN
          IF r.tag = "Panic"
          THEN /\ cpc' = [cpc EXCEPT ![k][c] = "panicked"]
               /\ cres' = [cres EXCEPT ![k][c] = r]
               /\ UNCHANGED <<carg, conn>>
          ELSE IF cop[k][c] = "use_keyspace" /\ r.tag = "Ok"
          THEN \* .await? is Ok: call use_keyspace on the connection
               /\ conn' = [conn EXCEPT
                              ![k] = Some(Connection_use_keyspace(
                                              Unwrap(@), Unwrap(carg[k][c])))]
               /\ cpc' = [cpc EXCEPT ![k][c] = "u_await"]
               /\ UNCHANGED <<carg, cres>>
          ELSE /\ cpc' = [cpc EXCEPT ![k][c] = "idle"]
               /\ cres' = [cres EXCEPT ![k][c] = r]
               /\ carg' = [carg EXCEPT ![k][c] = None]
               /\ UNCHANGED conn
    /\ UNCHANGED <<cfg, chan, dropped, wpc, nOpen, openPort, ksResult, cur_connection,
                   new_shard_info, sink, cop, cver, connKsResult, obsVars>>

\* Mutant: the error of the selection is swallowed, as the worker does.
use_keyspace_return_swallow(r) == OkUnit

\* self.get_connection().await?.use_keyspace(keyspace_name).await is the value
\* of the function: what the connection answers is what the caller gets.
use_keyspace_return(r) == r

\* The connection's use_keyspace resolves: its result is the call's result.
UseKeyspaceResolved(k, c) ==
    /\ cpc[k][c] = "u_await"
    /\ \E r \in use_keyspace_results :
          /\ connKsResult' = [connKsResult EXCEPT ![k][c] = r]
          /\ cres' = [cres EXCEPT ![k][c] = use_keyspace_return(r)]
    /\ cpc' = [cpc EXCEPT ![k][c] = "idle"]
    /\ carg' = [carg EXCEPT ![k][c] = None]
    /\ UNCHANGED <<cfg, chan, dropped, workerVars, sink, cop, cver, obsVars>>

(***************************************************************************)
(* Drop of the keeper.  Every call borrows the keeper, so it can be        *)
(* dropped only while no call is outstanding; the drop releases the        *)
(* receiver and the RemoteHandle.                                          *)
(***************************************************************************)
Drop(k) ==
    /\ ~dropped[k]
    /\ \A c \in Callers : cpc[k][c] = "idle"
    /\ dropped' = [dropped EXCEPT ![k] = TRUE]
    /\ UNCHANGED <<cfg, chan, workerVars, sink, callerVars, obsVars>>

(***************************************************************************)
(* Specifications.                                                         *)
(***************************************************************************)
Next ==
    \/ \E k \in Keepers : WorkerBegin(k)
    \/ \E k \in Keepers : OpenResolved(k)
    \/ \E k \in Keepers : KeyspaceResolved(k)
    \/ \E k \in Keepers : WorkerPublish(k)
    \/ \E k \in Keepers : WorkerLock(k)
    \/ \E k \in Keepers : WorkerSinkSend(k)
    \/ \E k \in Keepers : WorkerCancel(k)
    \/ \E k \in Keepers : Call_connection_state(k)
    \/ \E k \in Keepers, c \in Callers : Call_wait_until_initialized(k, c)
    \/ \E k \in Keepers, c \in Callers : Call_get_connection(k, c)
    \/ \E k \in Keepers, c \in Callers, name \in Keyspaces : Call_use_keyspace(k, c, name)
    \/ \E k \in Keepers, c \in Callers : WaitClone(k, c)
    \/ \E k \in Keepers, c \in Callers : WaitChanged(k, c)
    \/ \E k \in Keepers, c \in Callers : WaitAssert(k, c)
    \/ \E k \in Keepers, c \in Callers : GetRead(k, c)
    \/ \E k \in Keepers, c \in Callers : UseKeyspaceResolved(k, c)
    \/ \E k \in Keepers : Drop(k)

Spec == Init /\ [][Next]_vars

(***************************************************************************)
(* Fair scheduling: the runtime polls every task that can make progress,   *)
(* so no enabled step of the worker or of a caller inside a call is put    *)
(* off forever, and the connection's open and keyspace selection resolve.  *)
(* New calls and the drop of the keeper are up to the program.             *)
(***************************************************************************)
Fairness ==
    /\ \A k \in {1} :
          /\ WF_vars(WorkerBegin(k))
          /\ WF_vars(OpenResolved(k))
          /\ WF_vars(KeyspaceResolved(k))
          /\ WF_vars(WorkerPublish(k))
          /\ WF_vars(WorkerLock(k))
          /\ WF_vars(WorkerSinkSend(k))
          /\ WF_vars(WorkerCancel(k))
          /\ \A c \in Callers :
                /\ WF_vars(WaitClone(k, c))
                /\ WF_vars(WaitChanged(k, c))
                /\ WF_vars(WaitAssert(k, c))
                /\ WF_vars(GetRead(k, c))
                /\ WF_vars(UseKeyspaceResolved(k, c))

\* One keeper with shard affinity, a keyspace and a sink, whatever the sink's state.
LiveInit ==
    /\ InitFor({1})
    /\ cfg[1].has_sender
    /\ cfg[1].used_keyspace # None
    /\ cfg[1].shard_info = Some([shard |-> 1, nr_shards |-> NrShards])

LiveSpec == LiveInit /\ [][Next]_vars /\ Fairness

(***************************************************************************)
(* Two keepers built with the same shard-info sink (the Arc of               *)
(* ShardInfoSender is cloned into each), each with one caller that waits   *)
(* for its keeper.                                                         *)
(***************************************************************************)
SharedKeepers == {1, 2}

Waiters == {"c1"}

SharedInit ==
    /\ InitFor(SharedKeepers)
    /\ \A k \in SharedKeepers : cfg[k].has_sender /\ cfg[k].shard_info = None
    /\ cfg[2].used_keyspace = None

SharedNext ==
    \/ \E k \in Keepers : WorkerBegin(k)
    \/ \E k \in Keepers : OpenResolved(k)
    \/ \E k \in Keepers : KeyspaceResolved(k)
    \/ \E k \in Keepers : WorkerPublish(k)
    \/ \E k \in Keepers : WorkerLock(k)
    \/ \E k \in Keepers : WorkerSinkSend(k)
    \/ \E k \in Keepers : WorkerCancel(k)
    \/ \E k \in Keepers, c \in Waiters : Call_wait_until_initialized(k, c)
    \/ \E k \in Keepers, c \in Waiters : WaitClone(k, c)
    \/ \E k \in Keepers, c \in Waiters : WaitChanged(k, c)
    \/ \E k \in Keepers, c \in Waiters : WaitAssert(k, c)
    \/ \E k \in Keepers : Drop(k)

\* The workers are tasks of a multi-threaded runtime: each is polled when it
\* can run, and a worker blocked in lock() runs once the mutex is free.
SharedFairness ==
    \A k \in SharedKeepers :
        /\ WF_vars(WorkerBegin(k))
        /\ WF_vars(OpenResolved(k))
        /\ WF_vars(KeyspaceResolved(k))
        /\ WF_vars(WorkerPublish(k))
        /\ WF_vars(WorkerLock(k))
        /\ WF_vars(WorkerSinkSend(k))
        /\ WF_vars(WorkerCancel(k))
        /\ \A c \in Waiters :
              /\ WF_vars(WaitClone(k, c))
              /\ WF_vars(WaitChanged(k, c))
              /\ WF_vars(WaitAssert(k, c))

SharedSpec == SharedInit /\ [][SharedNext]_vars /\ SharedFairness

(***************************************************************************)
(* Helpers of the properties.                                              *)
(***************************************************************************)
State(k) == chan[k].value

\* The caller is inside wait_until_initialized.
InWait(k, c) == cpc[k][c] \in {"w_clone", "w_changed", "w_assert"}

\* The caller's last call was op and has returned a value.
Returned(k, c, op) == cop[k][c] = op /\ cpc[k][c] = "idle" /\ cres[k][c] # NoResult

\* The worker is past the send of the state.
Published(k) == wpc[k] \in {"lock", "sink_send", "done"}

(***************************************************************************)
(* C1: every value connection_state() returns is Initializing, Connected   *)
(* or Broken, and once a call has returned a non-Initializing value no     *)
(* later call on the same keeper returns Initializing.                     *)
(***************************************************************************)
C1_NeverBackToInitializing ==
    \A k \in Keepers :
        /\ lastObs[k].tag \in {"NoResult", "Initializing", "Connected", "Broken"}
        /\ leftInit[k] => lastObs[k] # Initializing

\* A call during the attempt saw Initializing or nothing yet, a call after the
\* worker has finished saw the terminal state.
C1_Witness ==
    \E k \in Keepers : leftInit[k] /\ wpc[k] = "done" /\ lastObs[k].tag = "Connected"

(***************************************************************************)
(* C2: a caller of wait_until_initialized that found Initializing goes on  *)
(* only after the worker has published Connected or Broken; no caller      *)
(* reads Initializing after waking: the debug assertion never fails.       *)
(***************************************************************************)
C2_NoInitializingAfterWaking ==
    \A k \in Keepers : \A c \in Callers :
        /\ cres[k][c] # Panic("debug_assert")
        /\ (cpc[k][c] \in {"w_assert", "g_read", "u_await"} \/ cres[k][c].tag \in {"Ok", "Err"})
              => (State(k) # Initializing /\ Published(k))

\* Both callers were suspended in changed() and have been woken.
C2_Witness ==
    \E k \in Keepers : \A c \in Callers : cpc[k][c] = "w_assert" /\ cver[k][c] = 1

(***************************************************************************)
(* C3: under fair scheduling, with the attempt resolving and the keeper    *)
(* alive, every call that waits for initialization gets past the wait and  *)
(* get_connection returns; all get_connection calls return the same.       *)
(***************************************************************************)
C3_WaitersReturn ==
    /\ \A c \in Callers :
          (cpc[1][c] # "idle") ~> (cpc[1][c] \in {"idle", "u_await"})
    /\ [](\A c1, c2 \in Callers :
             (Returned(1, c1, "get_connection") /\ Returned(1, c2, "get_connection"))
                => cres[1][c1] = cres[1][c2])

\* Both callers have come back from get_connection, one of them through the wait.
C3_Witness ==
    /\ \A c \in Callers : Returned(1, c, "get_connection")
    /\ wpc[1] = "done"

(***************************************************************************)
(* C4: when opening the connection fails with E, the published state is    *)
(* Broken(E), connection_state() reports it, and every get_connection and  *)
(* use_keyspace call returns the error E, never a panic.                   *)
(***************************************************************************)
C4_FailureIsReported ==
    \A k \in Keepers :
        cur_connection[k].tag = "Err" =>
            /\ State(k) \in {Initializing, Broken(cur_connection[k].err)}
            /\ (wpc[k] = "done" /\ ~dropped[k]) => State(k) = Broken(cur_connection[k].err)
            /\ lastObs[k] \in {NoResult, Initializing, Broken(cur_connection[k].err)}
            /\ \A c \in Callers :
                  /\ cpc[k][c] # "panicked"
                  /\ (Returned(k, c, "get_connection") \/ Returned(k, c, "use_keyspace"))
                        => cres[k][c] = Err(cur_connection[k].err)

C4_Witness ==
    \E k \in Keepers :
        /\ cur_connection[k] = Err("E2")
        /\ lastObs[k] = Broken("E2")
        /\ Returned(k, "c1", "get_connection")
        /\ Returned(k, "c2", "use_keyspace")

(***************************************************************************)
(* C5: after a successful connection every get_connection call returns the *)
(* one shared handle, and the keeper calls open_connection at most once.   *)
(***************************************************************************)
C5_OneSharedConnection ==
    \A k \in Keepers :
        /\ nOpen[k] <= 1
        /\ \A c \in Callers :
              (Returned(k, c, "get_connection") /\ cres[k][c].tag = "Ok")
                 => /\ State(k) = Connected(cres[k][c].val)
                    /\ cur_connection[k] = cres[k][c]

C5_Witness ==
    \E k \in Keepers : \A c \in Callers :
        Returned(k, c, "get_connection") /\ cres[k][c] = Ok(1)

(***************************************************************************)
(* C6: the published state changes only from Initializing: no step changes *)
(* it once it is Connected or Broken.                                      *)
(***************************************************************************)
C6_TerminalStates ==
    [][\A k \in Keepers : State(k) # Initializing => chan'[k].value = State(k)]_vars

\* The worker has gone on after publishing: it has forwarded the shard info.
C6_Witness ==
    \E k \in Keepers :
        /\ State(k).tag = "Connected"
        /\ wpc[k] = "done"
        /\ sink.value # None

(***************************************************************************)
(* C7: with a construction-time keyspace and a successful open, a failure  *)
(* of the worker's keyspace selection never yields Broken: the worker      *)
(* publishes Connected with the connection and get_connection returns Ok.  *)
(***************************************************************************)
C7_KeyspaceFailureSwallowed ==
    \A k \in Keepers :
        ksResult[k].tag = "Err" =>
            /\ State(k).tag # "Broken"
            /\ cur_connection[k] = Ok(nOpen[k])
            /\ (Published(k) /\ ~dropped[k]) => State(k) = Connected(nOpen[k])
            /\ \A c \in Callers :
                  Returned(k, c, "get_connection") => cres[k][c] = Ok(nOpen[k])

C7_Witness ==
    \E k \in Keepers :
        /\ ksResult[k].tag = "Err"
        /\ State(k).tag = "Connected"
        /\ Returned(k, "c1", "get_connection")

(***************************************************************************)
(* C8 as stated: for a keeper constructed with keyspace K, in every state  *)
(* where it is Connected the connection's recorded selected keyspace is K. *)
(***************************************************************************)
C8_Original ==
    \A k \in Keepers :
        (cfg[k].used_keyspace # None /\ State(k).tag = "Connected")
           => Unwrap(conn[k]).selected_keyspace = cfg[k].used_keyspace

(***************************************************************************)
(* C8 amended: for a keeper constructed with keyspace K, the connection's  *)
(* recorded selected keyspace is K when Connected is published, also when  *)
(* the worker's selection call failed, and from then on only a caller's    *)
(* use_keyspace(name) changes it, to name.                                 *)
(***************************************************************************)
C8_KeyspaceSelectedAtPublish ==
    [][\A k \in Keepers :
          cfg[k].used_keyspace # None =>
             /\ (State(k).tag # "Connected" /\ chan'[k].value.tag = "Connected")
                   => Unwrap(conn'[k]).selected_keyspace = cfg[k].used_keyspace
             /\ (State(k).tag = "Connected" /\ conn'[k] # conn[k])
                   => \E c \in Callers :
                         /\ cop[k][c] = "use_keyspace"
                         /\ cpc[k][c] = "g_read"
                         /\ cpc'[k][c] = "u_await"
                         /\ Unwrap(conn'[k]).selected_keyspace = carg[k][c]]_vars

C8_Witness ==
    \E k \in Keepers :
        /\ cfg[k].used_keyspace = Some("ks1")
        /\ ksResult[k].tag = "Err"
        /\ State(k).tag = "Connected"
        /\ Unwrap(conn[k]).selected_keyspace = Some("ks1")

(***************************************************************************)
(* C9: open_connection gets the source port drawn for the shard of the     *)
(* construction-time ShardInfo, a port the node maps to that shard, and no *)
(* port when no ShardInfo was given; nothing is opened before the draw.    *)
(***************************************************************************)
C9_SourcePortForShard ==
    \A k \in Keepers :
        IF nOpen[k] = 0
        THEN openPort[k] = None /\ conn[k] = None
        ELSE IF cfg[k].shard_info = None
        THEN openPort[k] = None
        ELSE /\ openPort[k] # None
             /\ Unwrap(openPort[k]) \in
                   draw_source_port_for_shard(Unwrap(cfg[k].shard_info),
                                              Unwrap(cfg[k].shard_info).shard)
             /\ Unwrap(openPort[k]) % Unwrap(cfg[k].shard_info).nr_shards
                   = Unwrap(cfg[k].shard_info).shard

C9_Witness ==
    \E k \in Keepers :
        /\ cfg[k].shard_info = Some([shard |-> 1, nr_shards |-> NrShards])
        /\ nOpen[k] = 1
        /\ openPort[k] = Some(1)
        /\ conn[k] # None

(***************************************************************************)
(* C10: when the keeper is dropped while the worker is suspended in its    *)
(* connection attempt, the worker task ends, cancelled, without the        *)
(* attempt having resolved; no worker keeps running after a drop.          *)
(***************************************************************************)
C10_DropCancelsWorker ==
    /\ (dropped[1] /\ wpc[1] = "opening")
          ~> (wpc[1] = "cancelled" /\ cur_connection[1] = NoResult /\ conn[1] = None)
    /\ dropped[1] ~> (wpc[1] \in {"done", "cancelled"})

C10_Witness ==
    /\ dropped[1]
    /\ wpc[1] = "cancelled"
    /\ nOpen[1] = 1
    /\ conn[1] = None

(***************************************************************************)
(* C11: with a sink configured, the worker forwards the shard info that    *)
(* the new connection reports (absent included), not the ShardInfo of      *)
(* construction, and only once it is past the send of Connected.           *)
(***************************************************************************)
C11_ForwardsConnectionShardInfo ==
    /\ [](\A k \in Keepers :
             wpc[k] \in {"lock", "sink_send"} =>
                /\ cfg[k].has_sender
                /\ cur_connection[k] = Ok(nOpen[k])
                /\ new_shard_info[k] = get_shard_info(Unwrap(conn[k]))
                /\ State(k) = Connected(nOpen[k]) \/ dropped[k])
    /\ [][sink'.value # sink.value =>
             \E k \in Keepers :
                /\ wpc[k] = "sink_send"
                /\ wpc'[k] = "done"
                /\ State(k) = Connected(nOpen[k]) \/ dropped[k]
                /\ sink'.value = get_shard_info(Unwrap(conn[k]))]_vars

\* The sink holds the shard the node reported, which is not the shard asked for.
C11_Witness ==
    \E k \in Keepers :
        /\ wpc[k] = "done"
        /\ cfg[k].shard_info = Some([shard |-> 1, nr_shards |-> NrShards])
        /\ sink.value = Some([shard |-> 0, nr_shards |-> NrShards])
        /\ State(k).tag = "Connected"

(***************************************************************************)
(* C14: get_connection returns the handle exactly when the state is        *)
(* Connected and the stored error exactly when it is Broken; the state it  *)
(* reads after the wait is never Initializing, so unreachable!() is not    *)
(* reached.                                                                *)
(***************************************************************************)
C14_GetConnectionMatchesState ==
    \A k \in Keepers : \A c \in Callers :
        /\ cres[k][c] # Panic("unreachable")
        /\ cpc[k][c] = "g_read" => State(k) # Initializing
        /\ Returned(k, c, "get_connection") =>
              /\ cres[k][c].tag = "Ok" <=> State(k).tag = "Connected"
              /\ cres[k][c].tag = "Err" <=> State(k).tag = "Broken"
              /\ cres[k][c].tag = "Ok" => cres[k][c].val = State(k).conn
              /\ cres[k][c].tag = "Err" => cres[k][c].err = State(k).err

\* One call has returned the handle while another, past its wait, is about to
\* read the state.
C14_Witness ==
    \E k \in Keepers :
        /\ Returned(k, "c1", "get_connection")
        /\ cres[k]["c1"].tag = "Ok"
        /\ cop[k]["c2"] = "get_connection"
        /\ cpc[k]["c2"] = "g_read"

(***************************************************************************)
(* C15: connection_state() can return in every state of a live keeper,     *)
(* with the latest published value, and every step of the worker can be    *)
(* taken whatever the callers are doing: the worker waits only for its     *)
(* own connection calls and for the sink lock.                             *)
(***************************************************************************)
C15_NobodyBlocks ==
    \A k \in Keepers :
        /\ ~dropped[k] => ENABLED Call_connection_state(k)
        /\ lastObs[k] \in {NoResult, Initializing, State(k)}
        /\ (wpc[k] = "spawned" /\ ~dropped[k]) => ENABLED WorkerBegin(k)
        /\ (wpc[k] = "opening" /\ ~dropped[k]) => ENABLED OpenResolved(k)
        /\ (wpc[k] = "ks_await" /\ ~dropped[k]) => ENABLED KeyspaceResolved(k)
        /\ wpc[k] = "publish" => ENABLED WorkerPublish(k)
        /\ (wpc[k] = "lock" /\ sink.holder = None) => ENABLED WorkerLock(k)
        /\ wpc[k] = "sink_send" => ENABLED WorkerSinkSend(k)
        /\ (WorkerSuspended(k) /\ dropped[k]) => ENABLED WorkerCancel(k)

\* connection_state() has returned Initializing while the worker is in its
\* attempt and both callers are suspended in changed().
C15_Witness ==
    \E k \in Keepers :
        /\ wpc[k] = "opening"
        /\ lastObs[k] = Initializing
        /\ \A c \in Callers : cpc[k][c] = "w_changed"

(***************************************************************************)
(* C16: no step, use_keyspace(name) on the keeper included, changes the    *)
(* keyspace the keeper was constructed with.                               *)
(***************************************************************************)
C16_KeeperKeyspaceFixed ==
    [][\A k \in Keepers : cfg'[k].used_keyspace = cfg[k].used_keyspace]_vars

\* use_keyspace("ks2") has returned on a keeper constructed with "ks1".
C16_Witness ==
    \E k \in Keepers : \E c \in Callers :
        /\ cfg[k].used_keyspace = Some("ks1")
        /\ Returned(k, c, "use_keyspace")
        /\ connKsResult[k][c] # NoResult
        /\ Unwrap(conn[k]).selected_keyspace = Some("ks2")

(***************************************************************************)
(* C17: wait_until_initialized loses no wake-up: whenever the state is     *)
(* published, a caller about to subscribe or already subscribed finds      *)
(* changed() ready, wakes, and reads the published value.                  *)
(***************************************************************************)
C17_NoLostWakeup ==
    /\ [](\A c \in Callers :
             /\ (cpc[1][c] = "w_changed" /\ State(1) # Initializing)
                   => changed_poll(chan[1], cver[1][c], SenderDropped(1)) = "Ok"
             /\ cpc[1][c] = "w_assert" => State(1) # Initializing)
    /\ \A c \in Callers :
          (cpc[1][c] \in {"w_clone", "w_changed"} /\ State(1) # Initializing)
             ~> (cpc[1][c] \in {"idle", "g_read", "u_await"})

\* The worker has published between the state check and the subscription of
\* c1, while c2 was already waiting.
C17_Witness ==
    /\ State(1) # Initializing
    /\ cpc[1]["c1"] = "w_clone"
    /\ cpc[1]["c2"] = "w_changed"

(***************************************************************************)
(* C18: while a caller is suspended in wait_until_initialized, the sender  *)
(* is dropped only with a terminal value the caller's receiver has not     *)
(* seen: changed() never returns the closed-channel error and the expect   *)
(* never fires.                                                            *)
(***************************************************************************)
C18_NeverClosedUnseen ==
    \A k \in Keepers : \A c \in Callers :
        /\ cres[k][c] # Panic("expect")
        /\ (cpc[k][c] \in {"w_clone", "w_changed"} /\ SenderDropped(k)) =>
              /\ State(k) # Initializing
              /\ chan[k].version #
                    (IF cpc[k][c] = "w_changed" THEN cver[k][c] ELSE Receiver_clone(chan[k]))

\* The worker has finished, and dropped the sender, with a caller still in changed().
C18_Witness ==
    \E k \in Keepers : \E c \in Callers :
        /\ wpc[k] = "done"
        /\ cpc[k][c] = "w_changed"

(***************************************************************************)
(* C19: after a failed attempt the worker publishes Broken and stops: no   *)
(* keyspace selection, no use of the shard-info sink, no second attempt.   *)
(***************************************************************************)
C19_FailureStopsWorker ==
    \A k \in Keepers :
        cur_connection[k].tag = "Err" =>
            /\ wpc[k] \in {"publish", "done"}
            /\ nOpen[k] = 1
            /\ conn[k] = None
            /\ ksResult[k] = NoResult
            /\ new_shard_info[k] = None
            /\ sink.holder # Some(k)
            /\ Keepers = {k} => sink.value = None

\* A keeper with a keyspace and a sink whose attempt failed, worker finished.
C19_Witness ==
    \E k \in Keepers :
        /\ cur_connection[k].tag = "Err"
        /\ wpc[k] = "done"
        /\ State(k).tag = "Broken"
        /\ cfg[k].has_sender
        /\ cfg[k].used_keyspace # None

(***************************************************************************)
(* C20: on a Connected keeper use_keyspace(name) returns what the          *)
(* connection's keyspace selection returned; when that is an error the     *)
(* state stays Connected with the same handle and get_connection still     *)
(* returns it.                                                             *)
(***************************************************************************)
C20_UseKeyspaceResult ==
    \A k \in Keepers : \A c \in Callers :
        /\ (Returned(k, c, "use_keyspace") /\ State(k).tag = "Connected")
              => (cres[k][c] = connKsResult[k][c] /\ cres[k][c] \in use_keyspace_results)
        /\ connKsResult[k][c].tag = "Err" =>
              /\ State(k) = Connected(nOpen[k])
              /\ \A c2 \in Callers :
                    Returned(k, c2, "get_connection") => cres[k][c2] = Ok(nOpen[k])

\* use_keyspace has failed for c1 and get_connection then returned the handle to c2.
C20_Witness ==
    \E k \in Keepers :
        /\ Returned(k, "c1", "use_keyspace")
        /\ connKsResult[k]["c1"] = Err("E1")
        /\ Returned(k, "c2", "get_connection")
        /\ cres[k]["c2"] = Ok(1)

(***************************************************************************)
(* C12: a failed forward (poisoned lock, no listener) is a skipped         *)
(* forward: the worker ends normally and the published state is not        *)
(* touched; the state is published before the lock is requested, so a      *)
(* worker kept waiting for the sink lock by another keeper has published   *)
(* and its waiters are ready to wake.                                      *)
(***************************************************************************)
C12_ForwardingBestEffort ==
    /\ [](\A k \in Keepers :
             /\ wpc[k] \in {"spawned", "opening", "ks_await", "publish", "lock",
                            "sink_send", "done", "cancelled"}
             /\ (wpc[k] \in {"lock", "sink_send"} \/ (wpc[k] = "done" /\ cur_connection[k].tag = "Ok"))
                   => (State(k) = Connected(nOpen[k]) \/ dropped[k])
             /\ (wpc[k] = "lock" /\ sink.holder # None) =>
                   \A c \in Callers :
                      cpc[k][c] = "w_changed"
                         => changed_poll(chan[k], cver[k][c], SenderDropped(k)) = "Ok")
    /\ [][\A k \in Keepers : wpc[k] \in {"lock", "sink_send"} => chan'[k] = chan[k]]_vars
    /\ \A k \in SharedKeepers : (wpc[k] = "lock") ~> (wpc[k] = "done")
    /\ \A k \in SharedKeepers : \A c \in Waiters :
          (wpc[k] = "lock" /\ cpc[k][c] \in {"w_clone", "w_changed"}) ~> (cpc[k][c] = "idle")

\* A worker waits for the sink lock another keeper holds, its own caller not
\* yet woken, and nobody listens to the sink.
C12_Witness ==
    /\ wpc[1] = "lock"
    /\ sink.holder = Some(2)
    /\ ~sink.receivers
    /\ cpc[1]["c1"] = "w_changed"

(***************************************************************************)
(* C13: keepers that share the sink send under its lock one at a time,     *)
(* and the sink holds either its initial value or the value one of the     *)
(* finished workers forwarded.                                             *)
(***************************************************************************)
C13_SinkSerialized ==
    /\ Cardinality({k \in Keepers : wpc[k] = "sink_send"}) <= 1
    /\ \A k \in Keepers : sink.holder = Some(k) <=> wpc[k] = "sink_send"
    /\ sink.value \in
          {None} \cup {new_shard_info[k] :
                          k \in {j \in Keepers : wpc[j] = "done" /\ cur_connection[j].tag = "Ok"}}

\* One worker is inside the locked send while the other, with another value
\* to forward, waits for the lock.
C13_Witness ==
    /\ wpc[1] = "sink_send"
    /\ wpc[2] = "lock"
    /\ new_shard_info[1] # new_shard_info[2]

====
